---- MODULE Spec2Model ----
(***************************************************************************)
(* Model of the paymob-capture function (Peter9991/appwrite-paymob-capture) *)
(*                                                                         *)
(* The repository holds four revisions of one HTTP handler:                *)
(*   "tokenNull"   src/src/main.js 1-99      token exchange, helpers return *)
(*                                           null / false on failure       *)
(*   "tokenThrow"  src/unnamed/part_000 1-100  token exchange, helpers throw *)
(*   "bearerBasic" src/unnamed/part_000 102-245  static bearer, basic checks *)
(*   "hardened"    src/src/main.js 101-330   static bearer, rate limiting   *)
(* One process runs one revision.  JavaScript runs a handler to its next    *)
(* await without interruption, so one action covers the code between two   *)
(* suspension points.                                                      *)
(***************************************************************************)
EXTENDS Integers, Sequences, FiniteSets, TLC

VARIABLES
    revision,        \* which revision of the handler this process runs
    secret,          \* process.env.PAYMOB_API_KEY / PAYMOB_SECRET_KEY ("" = unset)
    now,             \* Date.now(), in ms since the process started
    nTicks,          \* how often the clock has advanced
    rateLimitStore,  \* the module-level Map of the hardened revision
    inv,             \* the handler invocations in progress
    last,            \* the response the latest step returned, as the caller saw it
    granted,         \* per client, the times of its latest allowed requests
    checked          \* what checkRateLimit returned in the latest step, if called

vars == <<revision, secret, now, nTicks, rateLimitStore, inv, last, granted, checked>>

\* ------------------------------------------------------------------ bounds
MaxProcs == 2
MaxTicks == 2

\* ------------------------------------------------------- program constants
MAX_REQUEST_SIZE == 512000
REQUEST_TIMEOUT == 10000
RATE_LIMIT_WINDOW == 60000
MAX_REQUESTS_PER_IP == 5
MAX_AMOUNT == 99999999
TXN_MIN_LEN == 5
TXN_MAX_LEN == 50
BASIC_TIMEOUT == 30000
BASIC_TXN_MAX_LEN == 100
BASIC_MAX_AMOUNT == 1000000

Revisions == {"tokenNull", "tokenThrow", "bearerBasic", "hardened"}
Procs == 1..MaxProcs

\* ------------------------------------------------------ JavaScript values
\* A value of a parsed JSON field.  A string is a sequence of one-character
\* strings; a finite number is whole + frac/1000 with 0 <= frac < 1000.
Undef == [t |-> "undefined", s |-> <<>>, whole |-> 0, frac |-> 0]
Str(cs) == [t |-> "string", s |-> cs, whole |-> 0, frac |-> 0]
Num(w, f) == [t |-> "number", s |-> <<>>, whole |-> w, frac |-> f]
Infinity == [t |-> "infinity", s |-> <<>>, whole |-> 0, frac |-> 0]

IsNumberType(v) == v.t \in {"number", "infinity"}
IsFinite(v) == v.t = "number"
IsZero(v) == v.t = "number" /\ v.whole = 0 /\ v.frac = 0
LeqZero(v) == v.t = "number" /\ (v.whole < 0 \/ IsZero(v))
GreaterThan(v, n) ==
    \/ v.t = "infinity"
    \/ v.t = "number" /\ (v.whole > n \/ (v.whole = n /\ v.frac > 0))
IsInteger(v) == v.t = "number" /\ v.frac = 0
Truthy(v) ==
    CASE v.t = "undefined" -> FALSE
      [] v.t = "string" -> Len(v.s) > 0
      [] v.t = "number" -> ~IsZero(v)
      [] OTHER -> TRUE

\* Math.round(amount * 100), exact on the sampled values (thousandths).
RoundTimes100(v) ==
    IF v.t = "infinity" THEN Infinity
    ELSE Num(v.whole * 100 + ((v.frac + 5) \div 10), 0)

\* ------------------------------------------------------------ characters
UpperSeq == <<"A","B","C","D","E","F","G","H","I","J","K","L","M",
              "N","O","P","Q","R","S","T","U","V","W","X","Y","Z">>
LowerSeq == <<"a","b","c","d","e","f","g","h","i","j","k","l","m",
              "n","o","p","q","r","s","t","u","v","w","x","y","z">>
Digits == {"0","1","2","3","4","5","6","7","8","9"}
Range(f) == {f[i] : i \in DOMAIN f}
WordChars == Range(UpperSeq) \cup Range(LowerSeq) \cup Digits \cup {"_"}
IdChars == WordChars \cup {"-"}
StripChars == {"<", ">", "\"", "'", "&"}
ToLower(c) ==
    IF \E i \in DOMAIN UpperSeq : UpperSeq[i] = c
    THEN LowerSeq[CHOOSE i \in DOMAIN UpperSeq : UpperSeq[i] = c]
    ELSE c

RECURSIVE TrimLeft(_)
TrimLeft(cs) == IF cs # <<>> /\ Head(cs) = " " THEN TrimLeft(Tail(cs)) ELSE cs
RECURSIVE TrimRight(_)
TrimRight(cs) ==
    IF cs # <<>> /\ cs[Len(cs)] = " "
    THEN TrimRight(SubSeq(cs, 1, Len(cs) - 1)) ELSE cs
Trim(cs) == TrimRight(TrimLeft(cs))
Without(cs, chars) == SelectSeq(cs, LAMBDA c : c \notin chars)

MatchAt(cs, i, pat) ==
    /\ i + Len(pat) - 1 <= Len(cs)
    /\ \A k \in 1..Len(pat) : ToLower(cs[i + k - 1]) = pat[k]
\* replace(/javascript:/gi, ''): one left-to-right pass, matches do not overlap.
RECURSIVE RemoveLiteral(_, _, _)
RemoveLiteral(cs, i, pat) ==
    IF i > Len(cs) THEN <<>>
    ELSE IF MatchAt(cs, i, pat) THEN RemoveLiteral(cs, i + Len(pat), pat)
    ELSE <<cs[i]>> \o RemoveLiteral(cs, i + 1, pat)
\* First index >= i whose character is not a word character (Len+1 if none).
RECURSIVE WordEnd(_, _)
WordEnd(cs, i) ==
    IF i > Len(cs) \/ cs[i] \notin WordChars THEN i ELSE WordEnd(cs, i + 1)
\* replace(/on\w+=/gi, '')
RECURSIVE RemoveOnHandler(_, _)
RemoveOnHandler(cs, i) ==
    IF i > Len(cs) THEN <<>>
    ELSE LET j == WordEnd(cs, i + 2)
         IN  IF /\ MatchAt(cs, i, <<"o", "n">>)
                /\ j > i + 2 /\ j <= Len(cs) /\ cs[j] = "="
             THEN RemoveOnHandler(cs, j + 1)
             ELSE <<cs[i]>> \o RemoveOnHandler(cs, i + 1)
Prefix(cs, n) == SubSeq(cs, 1, IF Len(cs) < n THEN Len(cs) ELSE n)

\* A thrown Error, or a returned value.
Throw(m) == [ok |-> FALSE, val |-> Undef, msg |-> m]
Return(v) == [ok |-> TRUE, val |-> v, msg |-> ""]

RECURSIVE Join(_)
Join(cs) == IF cs = <<>> THEN "" ELSE Head(cs) \o Join(Tail(cs))
\* String(v) as a template literal renders it.
Show(v) ==
    CASE v.t = "undefined" -> "undefined"
      [] v.t = "string" -> Join(v.s)
      [] v.t = "infinity" -> "Infinity"
      [] OTHER -> IF v.frac = 0 THEN ToString(v.whole)
                  ELSE ToString(v.whole) \o "+" \o ToString(v.frac) \o "/1000"

\* ------------------------------------------------- hardened input validator
sanitizeInput_hardened(input, maxLength) ==
    IF input.t # "string" THEN Throw("Input must be a string")
    ELSE LET stripped == Without(Trim(input.s), StripChars)
             noScheme == RemoveLiteral(stripped, 1,
                             <<"j","a","v","a","s","c","r","i","p","t",":">>)
             sanitized == Prefix(RemoveOnHandler(noScheme, 1), maxLength)
         IN  IF Len(sanitized) = 0
             THEN Throw("Input cannot be empty after sanitization")
             ELSE Return(Str(sanitized))

validateTransactionId_hardened(transactionId) ==
    IF transactionId.t # "string" THEN Throw("Transaction ID must be a string")
    ELSE IF Len(transactionId.s) < TXN_MIN_LEN \/ Len(transactionId.s) > TXN_MAX_LEN
    THEN Throw("Transaction ID must be 5-50 characters")
    ELSE IF \E i \in DOMAIN transactionId.s : transactionId.s[i] \notin IdChars
    THEN Throw("Transaction ID contains invalid characters")
    ELSE sanitizeInput_hardened(transactionId, TXN_MAX_LEN)

AboveCeilingExclusive(amount) == GreaterThan(amount, MAX_AMOUNT - 1)
AboveCeiling(amount) == GreaterThan(amount, MAX_AMOUNT)

IntegerCheckSkipped(amount) == TRUE
IntegerCheck(amount) == IsInteger(amount)

validateAmount_hardened(amount) ==
    IF ~IsNumberType(amount) \/ ~IsFinite(amount)
    THEN Throw("Amount must be a finite number")
    ELSE IF LeqZero(amount) THEN Throw("Amount must be positive")
    ELSE IF AboveCeiling(amount) THEN Throw("Amount exceeds maximum limit")
    ELSE IF ~IntegerCheck(amount) THEN Throw("Amount must be an integer (piasters)")
    ELSE Return(amount)

\* ---------------------------------------------------- basic input validator
sanitizeInput_basic(input) ==
    IF input.t = "string" THEN Str(Without(Trim(input.s), {"<", ">"})) ELSE input

validateTransactionId_basic(transactionId) ==
    IF \/ transactionId.t # "string"
       \/ Len(transactionId.s) < 1
       \/ Len(transactionId.s) > BASIC_TXN_MAX_LEN
    THEN Throw("Invalid transaction ID: must be a string between 1-100 characters")
    ELSE Return(sanitizeInput_basic(transactionId))

validateAmount_basic(amount) ==
    IF \/ ~IsNumberType(amount)
       \/ LeqZero(amount)
       \/ GreaterThan(amount, BASIC_MAX_AMOUNT)
    THEN Throw("Invalid amount: must be a positive number less than 1,000,000")
    ELSE Return(amount)

\* ------------------------------------------------------------- rate limiter
\* rateLimitStore is the Map: a function whose domain is the set of keys.
Entries(store, clientId) ==
    IF clientId \in DOMAIN store THEN store[clientId] ELSE <<>>
MapSet(store, key, value) ==
    [k \in DOMAIN store \cup {key} |-> IF k = key THEN value ELSE store[k]]

InWindowInclusive(timestamp, windowStart) == timestamp >= windowStart
InWindow(timestamp, windowStart) == timestamp > windowStart

AtCapOffByOne(n) == n > MAX_REQUESTS_PER_IP
AtCap(n) == n >= MAX_REQUESTS_PER_IP

validRequests(store, clientId, t) ==
    SelectSeq(Entries(store, clientId),
              LAMBDA timestamp : InWindow(timestamp, t - RATE_LIMIT_WINDOW))

\* The limiter as it would be if a denied attempt were recorded too.
checkRateLimitRecordsDenied(store, clientId, t) ==
    LET created == IF clientId \in DOMAIN store THEN store
                   ELSE MapSet(store, clientId, <<>>)
        valid == validRequests(created, clientId, t)
    IN  [allowed |-> ~AtCap(Len(valid)),
         store |-> MapSet(created, clientId, Append(valid, t))]

\* The value returned and the Map after the call, for Date.now() = t.
checkRateLimit(store, clientId, t) ==
    LET created == IF clientId \in DOMAIN store THEN store
                   ELSE MapSet(store, clientId, <<>>)
        valid == validRequests(created, clientId, t)
    IN  IF AtCap(Len(valid))
        THEN [allowed |-> FALSE, store |-> created]
        ELSE [allowed |-> TRUE,
              store |-> MapSet(created, clientId, Append(valid, t))]

\* ------------------------------------------------------ gateway and axios
\* What the gateway does with one request: an HTTP response, or none.
NoData == [type |-> "empty", token |-> "", detail |-> "", message |-> ""]
Obj(tok, det, mes) ==
    [type |-> "object", token |-> tok, detail |-> det, message |-> mes]
Pending == [kind |-> "pending", status |-> 0, data |-> NoData]
Response(st, d) == [kind |-> "response", status |-> st, data |-> d]
Timeout == [kind |-> "timeout", status |-> 0, data |-> NoData]
NetworkError == [kind |-> "network", status |-> 0, data |-> NoData]

\* response.data as axios delivers it: a parsed object or array, the raw text
\* when the body is not JSON, '' when there is none.
DataTruthy(d) == d.type # "empty"
TypeofObject(d) == d.type \in {"object", "array"}
Field(d, f) == IF d.type = "object" THEN d[f] ELSE ""
Or3(a, b, c) == IF a # "" THEN a ELSE IF b # "" THEN b ELSE c
Stringify(d) ==
    CASE d.type = "object" ->
           "{token:" \o d.token \o ",detail:" \o d.detail
               \o ",message:" \o d.message \o "}"
      [] d.type = "array" -> "[]"
      [] d.type = "string" -> "\"<html>\""
      [] OTHER -> "\"\""

Is2xx(status) == status >= 200 /\ status < 300

\* The settled promise of axios.post: validateStatus decides between the two.
Resolved(out) ==
    [state |-> "resolved", status |-> out.status, data |-> out.data,
     hasResponse |-> TRUE, message |-> ""]
Rejected(out, m) ==
    [state |-> "rejected", status |-> out.status, data |-> out.data,
     hasResponse |-> out.kind = "response", message |-> m]
Failed(m) ==
    [state |-> "rejected", status |-> 0, data |-> NoData,
     hasResponse |-> FALSE, message |-> m]

axiosPost(out, timeoutMs) ==
    CASE out.kind = "response" /\ Is2xx(out.status) -> Resolved(out)
      [] out.kind = "response" ->
           Rejected(out, "Request failed with status code " \o ToString(out.status))
      [] out.kind = "timeout" ->
           Failed("timeout of " \o ToString(timeoutMs) \o "ms exceeded")
      [] OTHER -> Failed("Network Error")

\* err.response?.data?.<field>
ErrField(settled, f) == IF settled.hasResponse THEN Field(settled.data, f) ELSE ""

secureAxios_basic(out) == axiosPost(out, BASIC_TIMEOUT)

\* The hardened client: both response interceptors replace what they receive.
secureAxios_hardened(out) ==
    LET r == axiosPost(out, REQUEST_TIMEOUT)
    IN  IF r.state = "resolved"
        THEN IF ~DataTruthy(r.data) \/ ~TypeofObject(r.data)
             THEN Failed("Invalid capture response format")
             ELSE r
        ELSE IF r.hasResponse /\ r.status = 429
             THEN Failed("Capture rate limit exceeded")
        ELSE IF r.hasResponse /\ r.status >= 500
             THEN Failed("Capture service unavailable")
        ELSE IF r.hasResponse /\ r.status \in {401, 403}
             THEN Failed("Capture authentication failed")
        ELSE Failed("Capture request failed")

\* ----------------------------------------------------------- gateway client
\* What a gateway-client function has done for a given gateway outcome:
\* whether it posted its request, whether it has settled (not suspended at its
\* await), and then whether it returned a truthy value or threw / returned
\* null or false, with the token returned and the message thrown.
Suspended == [sent |-> TRUE, settled |-> FALSE, ok |-> FALSE, token |-> "", msg |-> ""]
Gave(wasSent, tok) ==
    [sent |-> wasSent, settled |-> TRUE, ok |-> TRUE, token |-> tok, msg |-> ""]
Fails(wasSent, m) ==
    [sent |-> wasSent, settled |-> TRUE, ok |-> FALSE, token |-> "", msg |-> m]

\* if (!transactionId || !amountPiasters || amountPiasters <= 0)
BadCaptureInput(transactionId, amountPiasters) ==
    ~Truthy(transactionId) \/ ~Truthy(amountPiasters) \/ LeqZero(amountPiasters)

HasTokenLoose(data) == DataTruthy(data)
HasToken(data) == DataTruthy(data) /\ Field(data, "token") # ""

getAuthToken_tokenNull(apiKey, out) ==
    IF apiKey = "" THEN Fails(FALSE, "")
    ELSE IF out.kind = "pending" THEN Suspended
    ELSE LET response == axiosPost(out, 0)
         IN  IF response.state = "resolved"
             THEN IF HasToken(response.data)
                  THEN Gave(TRUE, Field(response.data, "token"))
                  ELSE Fails(TRUE, "")
             ELSE Fails(TRUE, "")

captureTransaction_tokenNull(authToken, transactionId, amountPiasters, out) ==
    IF BadCaptureInput(transactionId, amountPiasters) THEN Fails(FALSE, "")
    ELSE IF out.kind = "pending" THEN Suspended
    ELSE LET response == axiosPost(out, 0)
         IN  IF response.state = "resolved"
             THEN IF Is2xx(response.status) /\ DataTruthy(response.data)
                  THEN Gave(TRUE, "")
                  ELSE Fails(TRUE, "")
             ELSE Fails(TRUE, "")

getAuthToken_tokenThrow(apiKey, out) ==
    IF apiKey = "" THEN Fails(FALSE, "Server configuration error: Missing API Key.")
    ELSE IF out.kind = "pending" THEN Suspended
    ELSE LET response == axiosPost(out, 0)
         IN  IF response.state = "resolved"
             THEN IF HasToken(response.data)
                  THEN Gave(TRUE, Field(response.data, "token"))
                  ELSE LET errMsg == IF DataTruthy(response.data)
                                     THEN Stringify(response.data)
                                     ELSE "Invalid auth response"
                       IN  Fails(TRUE, "Paymob Auth Request Failed: "
                                           \o "Paymob Auth Failed: " \o errMsg)
             ELSE Fails(TRUE, "Paymob Auth Request Failed: "
                          \o Or3(ErrField(response, "message"),
                                 ErrField(response, "detail"), response.message))

captureTransaction_tokenThrow(authToken, transactionId, amountPiasters, out) ==
    IF BadCaptureInput(transactionId, amountPiasters)
    THEN Fails(FALSE, "Invalid input for capture: Missing transactionId or invalid amount.")
    ELSE IF out.kind = "pending" THEN Suspended
    ELSE LET response == axiosPost(out, 0)
         IN  IF response.state = "resolved"
             THEN IF Is2xx(response.status)
                  THEN Gave(TRUE, "")
                  ELSE Fails(TRUE, "Paymob Capture Request Failed: "
                               \o "Paymob Capture Failed: "
                               \o Or3(Field(response.data, "message"),
                                      Field(response.data, "detail"),
                                      Stringify(response.data)))
             ELSE Fails(TRUE, "Paymob Capture Request Failed: "
                          \o Or3(ErrField(response, "detail"),
                                 ErrField(response, "message"), response.message))

captureTransaction_basic(secretKey, transactionId, amountPiasters, out) ==
    IF secretKey = ""
    THEN Fails(FALSE, "Server configuration error: Missing Secret Key.")
    ELSE IF BadCaptureInput(transactionId, amountPiasters)
    THEN Fails(FALSE, "Invalid input for capture: Missing transactionId or invalid amount.")
    ELSE IF out.kind = "pending" THEN Suspended
    ELSE LET response == secureAxios_basic(out)
         IN  IF response.state = "resolved"
             THEN IF response.status = 201
                  THEN Gave(TRUE, "")
                  ELSE Fails(TRUE, "Paymob Capture Request Failed: "
                               \o "Paymob Capture Failed: "
                               \o Or3(Field(response.data, "message"),
                                      Field(response.data, "detail"),
                                      Stringify(response.data)))
             ELSE Fails(TRUE, "Paymob Capture Request Failed: "
                          \o Or3(ErrField(response, "detail"),
                                 ErrField(response, "message"), response.message))

IsSuccessAny2xx(status) == Is2xx(status)
IsSuccess(status) == status = 200 \/ status = 201

captureTransaction_hardened(secretKey, transactionId, amountPiasters, out) ==
    IF secretKey = ""
    THEN Fails(FALSE, "Server configuration error: Missing Secret Key.")
    ELSE IF BadCaptureInput(transactionId, amountPiasters)
    THEN Fails(FALSE, "Invalid input for capture: Missing transactionId or invalid amount.")
    ELSE IF out.kind = "pending" THEN Suspended
    ELSE LET response == secureAxios_hardened(out)
         IN  IF response.state = "resolved"
             THEN IF ~DataTruthy(response.data) \/ ~TypeofObject(response.data)
                  THEN Fails(TRUE, "Paymob Capture Request Failed: "
                               \o "Invalid capture response format")
                  ELSE IF IsSuccess(response.status)
                  THEN Gave(TRUE, "")
                  ELSE Fails(TRUE, "Paymob Capture Request Failed: "
                               \o "Paymob Capture Failed: "
                               \o Or3(Field(response.data, "message"),
                                      Field(response.data, "detail"),
                                      "Capture failed"))
             ELSE Fails(TRUE, "Paymob Capture Request Failed: "
                          \o Or3(ErrField(response, "detail"),
                                 ErrField(response, "message"), response.message))

\* ----------------------------------------------------------------- requests
\* req.body is undefined or a string of len bytes, esc of which JSON.stringify
\* escapes; parse is what JSON.parse makes of it.  An absent header reads as
\* the empty string (both are falsy).
BodyTruthy(body) == body.kind = "string" /\ body.len > 0
\* Buffer.byteLength(JSON.stringify(req.body)) of a string body
bodySize(body) == body.len + body.esc + 2

\* if(!req.body) throw ...; const bodyData = JSON.parse(req.body);
\* followed by the first property read of bodyData
parseBody(body) ==
    IF ~BodyTruthy(body) THEN Throw("Request body is missing.")
    ELSE IF body.parse = "syntaxError" THEN Throw("Unexpected token in JSON")
    ELSE IF body.parse = "null"
    THEN Throw("Cannot read properties of null (reading 'transactionId')")
    ELSE Return(Undef)

AuthCall(apiKey) ==
    [ep |-> "auth", credential |-> apiKey, token |-> "",
     transaction_id |-> Undef, amount_cents |-> Undef]
CaptureCall(cred, tok, transactionId, amountPiasters) ==
    [ep |-> "capture", credential |-> cred, token |-> tok,
     transaction_id |-> transactionId, amount_cents |-> amountPiasters]

\* What the handler has done so far: suspended at an await (pc), or returned
\* res.json(...) (pc = "done"); escaped marks a fault thrown to the caller.
Resp(st, ok, err, rid, gs, cs, f) ==
    [pc |-> "done", status |-> st, success |-> ok, error |-> err,
     requestId |-> rid, gates |-> gs, calls |-> cs, fault |-> f, escaped |-> FALSE]
Wait(at, gs, cs) ==
    [pc |-> at, status |-> 0, success |-> FALSE, error |-> "",
     requestId |-> FALSE, gates |-> gs, calls |-> cs, fault |-> "", escaped |-> FALSE]
Uncaught(m, gs) ==
    [pc |-> "done", status |-> 0, success |-> FALSE, error |-> "",
     requestId |-> FALSE, gates |-> gs, calls |-> <<>>, fault |-> m, escaped |-> TRUE]

\* ------------------------------------------------ token-exchange handlers
\* The parse block shared by the two token-exchange revisions.
parseLoose(body) ==
    LET p == parseBody(body)
    IN  IF ~p.ok THEN p
        ELSE IF ~Truthy(body.transactionId) \/ body.transactionId.t # "string"
        THEN Throw("Invalid transactionId received: " \o Show(body.transactionId))
        ELSE IF ~IsNumberType(body.amount) \/ LeqZero(body.amount)
        THEN Throw("Invalid amount received: " \o Show(body.amount))
        ELSE Return(Undef)

tokenFlow(req, apiKey, a, c, amountPiasters) ==
    LET authCalls == IF a.sent THEN <<AuthCall(apiKey)>> ELSE <<>>
        calls == IF c.sent
                 THEN Append(authCalls, CaptureCall("", a.token,
                                 req.body.transactionId, amountPiasters))
                 ELSE authCalls
    IN  [authCalls |-> authCalls, calls |-> calls]

handler_tokenNull(req, apiKey, authOut, capOut) ==
    IF apiKey = ""
    THEN Resp(500, FALSE, "Server configuration error.", FALSE, <<>>, <<>>, "")
    ELSE LET p == parseLoose(req.body)
         IN  IF ~p.ok
             THEN Resp(400, FALSE, "Invalid request body: " \o p.msg, FALSE, <<>>, <<>>, "")
             ELSE LET amountPiasters == RoundTimes100(req.body.amount)
                      a == getAuthToken_tokenNull(apiKey, authOut)
                      c == captureTransaction_tokenNull(a.token,
                               req.body.transactionId, amountPiasters, capOut)
                      f == tokenFlow(req, apiKey, a, c, amountPiasters)
                  IN  IF ~a.settled THEN Wait("awaitAuth", <<>>, f.authCalls)
                      ELSE IF ~a.ok
                      THEN Resp(500, FALSE, "Paymob authentication failed.",
                                FALSE, <<>>, f.authCalls, "")
                      ELSE IF ~c.settled THEN Wait("awaitCapture", <<>>, f.calls)
                      ELSE IF ~c.ok
                      THEN Resp(500, FALSE, "Paymob capture API call failed.",
                                FALSE, <<>>, f.calls, "")
                      ELSE Resp(200, TRUE, "", FALSE, <<>>, f.calls, "")

\* flowError.message || 'Capture process failed.'
FlowMessage(m) == IF m = "" THEN "Capture process failed." ELSE m

handler_tokenThrow(req, apiKey, authOut, capOut) ==
    LET p == parseLoose(req.body)
    IN  IF ~p.ok
        THEN Resp(400, FALSE, "Invalid request body: " \o p.msg, FALSE, <<>>, <<>>, "")
        ELSE LET amountPiasters == RoundTimes100(req.body.amount)
                 a == getAuthToken_tokenThrow(apiKey, authOut)
                 c == captureTransaction_tokenThrow(a.token,
                          req.body.transactionId, amountPiasters, capOut)
                 f == tokenFlow(req, apiKey, a, c, amountPiasters)
             IN  IF ~a.settled THEN Wait("awaitAuth", <<>>, f.authCalls)
                 ELSE IF ~a.ok
                 THEN Resp(500, FALSE, FlowMessage(a.msg), FALSE, <<>>,
                           f.authCalls, a.msg)
                 ELSE IF ~c.settled THEN Wait("awaitCapture", <<>>, f.calls)
                 ELSE IF ~c.ok
                 THEN Resp(500, FALSE, FlowMessage(c.msg), FALSE, <<>>, f.calls, c.msg)
                 ELSE Resp(200, TRUE, "", FALSE, <<>>, f.calls, "")

\* -------------------------------------------------- static-bearer handlers
handler_bearerBasic(req, secretKey, capOut) ==
    IF secretKey = ""
    THEN Resp(500, FALSE, "Server configuration error.", FALSE, <<>>, <<>>, "")
    ELSE LET p == parseBody(req.body)
             t == validateTransactionId_basic(req.body.transactionId)
             m == validateAmount_basic(req.body.amount)
         IN  IF ~p.ok \/ ~t.ok \/ ~m.ok
             THEN Resp(400, FALSE,
                       "Invalid request body: "
                           \o (IF ~p.ok THEN p.msg ELSE IF ~t.ok THEN t.msg ELSE m.msg),
                       FALSE, <<>>, <<>>, "")
             ELSE LET amountPiasters == RoundTimes100(m.val)
                      c == captureTransaction_basic(secretKey, t.val,
                                                    amountPiasters, capOut)
                      calls == IF c.sent
                               THEN <<CaptureCall(secretKey, "", t.val, amountPiasters)>>
                               ELSE <<>>
                  IN  IF ~c.settled THEN Wait("awaitCapture", <<>>, calls)
                      ELSE IF ~c.ok
                      THEN Resp(500, FALSE, FlowMessage(c.msg), FALSE, <<>>, calls, c.msg)
                      ELSE Resp(200, TRUE, "", FALSE, <<>>, calls, "")

\* req.headers['x-forwarded-for'] || req.headers['x-real-ip'] || 'unknown'
clientIdOf(req) ==
    IF req.xff # "" THEN req.xff ELSE IF req.xri # "" THEN req.xri ELSE "unknown"

\* The body of the outer try block.  allowed is what checkRateLimit returned
\* (read only when the method gate has passed).
handlerTry_hardened(req, secretKey, allowed, capOut) ==
    IF req.method # "POST"
    THEN Resp(405, FALSE, "Method not allowed", FALSE, <<"method">>, <<>>, "")
    ELSE IF ~allowed
    THEN Resp(429, FALSE, "Too many capture requests", FALSE,
              <<"method", "rate">>, <<>>, "")
    ELSE IF req.body.kind = "undefined"
    THEN \* JSON.stringify(undefined) is undefined: Buffer.byteLength throws
         Uncaught("The \"string\" argument must be of type string",
                  <<"method", "rate", "size">>)
    ELSE IF bodySize(req.body) > MAX_REQUEST_SIZE
    THEN Resp(413, FALSE, "Request too large", FALSE,
              <<"method", "rate", "size">>, <<>>, "")
    ELSE IF secretKey = ""
    THEN Resp(500, FALSE, "Server configuration error.", FALSE,
              <<"method", "rate", "size", "credential">>, <<>>, "")
    ELSE LET gs == <<"method", "rate", "size", "credential", "input">>
             p == parseBody(req.body)
             t == validateTransactionId_hardened(req.body.transactionId)
             m == validateAmount_hardened(req.body.amountCents)
         IN  IF ~p.ok \/ ~t.ok \/ ~m.ok
             THEN Resp(400, FALSE, "Invalid request body", FALSE, gs, <<>>, "")
             ELSE LET c == captureTransaction_hardened(secretKey, t.val, m.val, capOut)
                      calls == IF c.sent
                               THEN <<CaptureCall(secretKey, "", t.val, m.val)>>
                               ELSE <<>>
                  IN  IF ~c.settled THEN Wait("awaitCapture", gs, calls)
                      ELSE IF ~c.ok
                      THEN Resp(500, FALSE, "Capture process failed", TRUE, gs,
                                calls, c.msg)
                      ELSE Resp(200, TRUE, "", TRUE, gs, calls, "")

NoMainCatch(r) == r
\* } catch (mainError) { return res.json({ ..., error: 'Server error' }, 500) }
mainCatch(r) ==
    IF r.escaped
    THEN Resp(500, FALSE, "Server error", TRUE, r.gates, r.calls, r.fault)
    ELSE r

handler_hardened(req, secretKey, allowed, capOut) ==
    mainCatch(handlerTry_hardened(req, secretKey, allowed, capOut))

\* The deployed revision's handler, as far as it gets with the outcomes so far.
handler(rev, req, key, allowed, authOut, capOut) ==
    CASE rev = "tokenNull" -> handler_tokenNull(req, key, authOut, capOut)
      [] rev = "tokenThrow" -> handler_tokenThrow(req, key, authOut, capOut)
      [] rev = "bearerBasic" -> handler_bearerBasic(req, key, capOut)
      [] OTHER -> handler_hardened(req, key, allowed, capOut)

\* ------------------------------------------------------------ sampled inputs
TXN_OK == Str(<<"T", "X", "N", "1", "2", "3", "4", "5">>)
TxnSamples ==
    { TXN_OK,
      Str(<<"T", "X", "N">>),
      Str(<<"<", "T", "X", "N", "1", "2", ">">>),
      Str(<<"<", ">">>),
      Str([i \in 1..(TXN_MAX_LEN + 1) |-> "A"]),
      Str(<<>>),
      Undef }
AmountSamples ==
    { Num(100, 0), Num(1, 500), Num(0, 4), Num(0, 0),
      Num(BASIC_MAX_AMOUNT, 0), Num(BASIC_MAX_AMOUNT + 1, 0),
      Str(<<"1", "0", "0">>), Undef }
CentsSamples ==
    { Num(1, 0), Num(MAX_AMOUNT, 0), Num(MAX_AMOUNT + 1, 0),
      Num(0, 0), Num(-5, 0), Num(1, 500),
      Str(<<"1", "0", "0">>), Infinity, Undef }

UndefinedBody ==
    [kind |-> "undefined", len |-> 0, esc |-> 0, parse |-> "syntaxError",
     transactionId |-> Undef, amount |-> Undef, amountCents |-> Undef]
TextBody(n, how) ==
    [kind |-> "string", len |-> n, esc |-> 0, parse |-> how,
     transactionId |-> Undef, amount |-> Undef, amountCents |-> Undef]
JsonBody(n, t, a, c) ==
    [kind |-> "string", len |-> n, esc |-> 8, parse |-> "object",
     transactionId |-> t, amount |-> a, amountCents |-> c]

Bodies ==
    { UndefinedBody, TextBody(0, "syntaxError"), TextBody(9, "syntaxError"),
      TextBody(4, "null"),
      JsonBody(MAX_REQUEST_SIZE + 1, TXN_OK, Num(100, 0), Num(150, 0)) }
    \cup { JsonBody(60, t, Num(100, 0), Num(150, 0)) : t \in TxnSamples }
    \cup { JsonBody(60, TXN_OK, a, Undef) : a \in AmountSamples }
    \cup { JsonBody(60, TXN_OK, Undef, c) : c \in CentsSamples }

Request(m, f, r, b) == [method |-> m, xff |-> f, xri |-> r, body |-> b]
Requests ==
    { Request("POST", "ip1", "", b) : b \in Bodies }
    \cup { Request("GET", "ip1", "", JsonBody(60, TXN_OK, Num(100, 0), Num(150, 0))) }
\* The requests of the concurrent specification: well-formed, from one client.
LightRequests ==
    { Request("POST", h[1], h[2], JsonBody(60, TXN_OK, Num(100, 0), Num(150, 0))) :
          h \in {<<"ip1", "ip2">>} }
\* Well-formed requests from two clients, named by either header.
ClientRequests ==
    { Request("POST", h[1], h[2], JsonBody(60, TXN_OK, Num(100, 0), Num(150, 0))) :
          h \in {<<"ip1", "ip2">>, <<"", "ip2">>} }
\* The gateway accepts.
AcceptOutcomes == { Response(201, Obj("tokA", "", "")) }
ClientIds == {"ip1", "ip2", "unknown"}

DataSamples ==
    { NoData,
      [type |-> "string", token |-> "", detail |-> "", message |-> ""],
      [type |-> "array", token |-> "", detail |-> "", message |-> ""],
      Obj("", "", ""), Obj("tokA", "", ""), Obj("tokB", "", ""),
      Obj("", "gwDetail", ""), Obj("", "", "gwMessage"),
      Obj("", "gwDetail", "gwMessage") }
ErrorData ==
    { NoData, Obj("", "gwDetail", ""), Obj("", "", "gwMessage"),
      Obj("", "gwDetail", "gwMessage") }
Outcomes ==
    { Response(st, d) : st \in {200, 201}, d \in DataSamples }
    \cup { Response(204, d) : d \in {NoData, Obj("", "gwDetail", "gwMessage")} }
    \cup { Response(401, d) : d \in ErrorData }
    \cup { Response(400, Obj("", "gwDetail", "")),
           Response(500, NoData), Response(500, Obj("", "gwDetail", "gwMessage")),
           Response(429, NoData), Timeout, NetworkError }
LightOutcomes ==
    { Response(201, Obj("tokA", "", "")), Response(200, Obj("tokB", "", "")),
      Response(401, Obj("", "gwDetail", "")) }
Keys == {"", "sk_live_1"}

\* ---------------------------------------------------------------- the state
Idle == [pc |-> "idle", req |-> Request("GET", "", "", UndefinedBody),
         allowed |-> TRUE, authOut |-> Pending]
NoLast ==
    [valid |-> FALSE, req |-> Idle.req, allowed |-> TRUE, authOut |-> Pending,
     capOut |-> Pending, res |-> Wait("idle", <<>>, <<>>)]
Observed(req, allowed, authOut, capOut, r) ==
    [valid |-> TRUE, req |-> req, allowed |-> allowed, authOut |-> authOut,
     capOut |-> capOut, res |-> r]
NoCheck == [called |-> FALSE, clientId |-> "", allowed |-> FALSE]
Checked(clientId, allowed) ==
    [called |-> TRUE, clientId |-> clientId, allowed |-> allowed]

\* The latest MAX_REQUESTS_PER_IP + 1 allowed requests of a client.
Grant(log, t) ==
    LET all == Append(log, t)
    IN  IF Len(all) > MAX_REQUESTS_PER_IP + 1 THEN Tail(all) ELSE all

InitWith(n) ==
    /\ revision \in Revisions
    /\ secret \in Keys
    /\ now = 0
    /\ nTicks = 0
    /\ rateLimitStore = [c \in {} |-> <<>>]
    /\ inv = [p \in 1..n |-> Idle]
    /\ last = NoLast
    /\ granted = [c \in ClientIds |-> <<>>]
    /\ checked = NoCheck

\* One request at a time.
Init == InitWith(1)
\* Up to MaxProcs requests in progress at once.
InitConcurrent == InitWith(MaxProcs)

\* The handler is called with req and runs to its first await or to its
\* return.  Nothing else runs in between: checkRateLimit and the gates hold no
\* await, so the event loop cannot interleave another invocation with them.
Invoke(p, req) ==
    /\ inv[p].pc = "idle"
    /\ \E clientId \in {clientIdOf(req)} :
       \E rl \in {checkRateLimit(rateLimitStore, clientId, now)} :
       \E r \in {handler(revision, req, secret, rl.allowed, Pending, Pending)} :
       \E limited \in {\E i \in DOMAIN r.gates : r.gates[i] = "rate"} :
       \E allowed \in {limited => rl.allowed} :
           /\ rateLimitStore' = IF limited THEN rl.store ELSE rateLimitStore
           /\ granted' = IF limited /\ rl.allowed
                         THEN [granted EXCEPT ![clientId] = Grant(@, now)]
                         ELSE granted
           /\ checked' = IF limited THEN Checked(clientId, rl.allowed) ELSE NoCheck
           /\ IF r.pc = "done"
              THEN /\ last' = Observed(req, allowed, Pending, Pending, r)
                   /\ inv' = inv
              ELSE /\ inv' = [inv EXCEPT ![p] =
                                 [pc |-> r.pc, req |-> req, allowed |-> allowed,
                                  authOut |-> Pending]]
                   /\ last' = NoLast
    /\ UNCHANGED <<revision, secret, now, nTicks>>

\* The authentication exchange settles; the handler resumes after its await.
\* axios without a timeout option never abandons a request.
AuthReply(p, out) ==
    /\ inv[p].pc = "awaitAuth"
    /\ out.kind # "timeout"
    /\ \E r \in {handler(revision, inv[p].req, secret, inv[p].allowed, out, Pending)} :
           IF r.pc = "done"
           THEN /\ last' = Observed(inv[p].req, inv[p].allowed, out, Pending, r)
                /\ inv' = [inv EXCEPT ![p] = Idle]
           ELSE /\ inv' = [inv EXCEPT ![p].pc = r.pc, ![p].authOut = out]
                /\ last' = NoLast
    /\ checked' = NoCheck
    /\ UNCHANGED <<revision, secret, now, nTicks, rateLimitStore, granted>>

\* The capture request settles.  Only the clients created with a timeout
\* (secureAxios) abandon a request.
CaptureReply(p, out) ==
    /\ inv[p].pc = "awaitCapture"
    /\ out.kind = "timeout" => revision \in {"bearerBasic", "hardened"}
    /\ \E r \in {handler(revision, inv[p].req, secret, inv[p].allowed,
                        inv[p].authOut, out)} :
           /\ last' = Observed(inv[p].req, inv[p].allowed, inv[p].authOut, out, r)
           /\ inv' = [inv EXCEPT ![p] = Idle]
    /\ checked' = NoCheck
    /\ UNCHANGED <<revision, secret, now, nTicks, rateLimitStore, granted>>

\* Time passes.  Only the hardened revision reads the clock.
Tick(d) ==
    /\ revision = "hardened"
    /\ nTicks < MaxTicks
    /\ now' = now + d
    /\ nTicks' = nTicks + 1
    /\ last' = NoLast
    /\ checked' = NoCheck
    /\ UNCHANGED <<revision, secret, rateLimitStore, inv, granted>>

Next ==
    \/ \E p \in DOMAIN inv, req \in Requests : Invoke(p, req)
    \/ \E p \in DOMAIN inv, out \in Outcomes : AuthReply(p, out)
    \/ \E p \in DOMAIN inv, out \in Outcomes : CaptureReply(p, out)
    \/ Tick(RATE_LIMIT_WINDOW)

Spec == Init /\ [][Next]_vars

NextConcurrent ==
    \/ \E p \in DOMAIN inv, req \in LightRequests : Invoke(p, req)
    \/ \E p \in DOMAIN inv, out \in LightOutcomes : AuthReply(p, out)
    \/ \E p \in DOMAIN inv, out \in LightOutcomes : CaptureReply(p, out)
    \/ \E d \in {1, RATE_LIMIT_WINDOW - 1} : Tick(d)

SpecConcurrent == InitConcurrent /\ [][NextConcurrent]_vars

\* One invocation at a time, from several clients.
NextClients ==
    \/ \E p \in DOMAIN inv, req \in ClientRequests : Invoke(p, req)
    \/ \E p \in DOMAIN inv, out \in AcceptOutcomes : AuthReply(p, out)
    \/ \E p \in DOMAIN inv, out \in AcceptOutcomes : CaptureReply(p, out)
    \/ Tick(RATE_LIMIT_WINDOW - 1)

SpecClients == Init /\ [][NextClients]_vars

\* =================================================================== claims
\* How many of the times in log lie inside the window that ends at t.
InWindowCount(log, t) ==
    Cardinality({i \in DOMAIN log : log[i] > t - RATE_LIMIT_WINDOW})
\* The allowed requests of a client before the call checked in this step.
PriorGrants ==
    LET log == granted[checked.clientId]
    IN  IF checked.allowed THEN SubSeq(log, 1, Len(log) - 1) ELSE log

\* C1: with cap 5 and window 60 000 ms, a call of checkRateLimit returns true
\* when fewer than 5 earlier allowed calls of the client lie inside the window
\* (so 5 successive calls all pass, and a call passes again once the recorded
\* ones are older than the window), and false when 5 of them do (the 6th call).
C1_RateLimitWindow ==
    checked.called =>
        (checked.allowed <=> InWindowCount(PriorGrants, now) < MAX_REQUESTS_PER_IP)
\* A client that used its five requests is allowed again once they have expired.
C1_Witness ==
    /\ checked.called /\ checked.allowed
    /\ Len(granted[checked.clientId]) = MAX_REQUESTS_PER_IP + 1
    /\ granted[checked.clientId][MAX_REQUESTS_PER_IP] <= now - RATE_LIMIT_WINDOW
C1_SixthDenied ==
    /\ checked.called /\ ~checked.allowed
    /\ InWindowCount(granted[checked.clientId], now) = MAX_REQUESTS_PER_IP

\* C10: whatever the interleaving of the invocations in progress, no client is
\* allowed more than 5 requests whose timestamps lie within one window of
\* 60 000 ms (a window is half-open, as validRequests counts it: the sixth
\* allowed request comes at least a whole window after the first of the five
\* before it).
C10_AtMostCapPerWindow ==
    \A c \in ClientIds :
        Len(granted[c]) = MAX_REQUESTS_PER_IP + 1 =>
            granted[c][MAX_REQUESTS_PER_IP + 1] - granted[c][1] >= RATE_LIMIT_WINDOW
\* A request is denied while another request of the same client, allowed
\* inside the same window, is still waiting for the gateway.
C10_Witness ==
    /\ checked.called /\ ~checked.allowed
    /\ \E p \in DOMAIN inv :
          /\ inv[p].pc = "awaitCapture"
          /\ clientIdOf(inv[p].req) = checked.clientId
    /\ InWindowCount(granted[checked.clientId], now) = MAX_REQUESTS_PER_IP

\* ----------------------------------------------- the gates, as the spec states them
AllGates == <<"method", "rate", "size", "credential", "input">>
GateStatus(g) ==
    CASE g = "method" -> 405
      [] g = "rate" -> 429
      [] g = "size" -> 413
      [] g = "credential" -> 500
      [] OTHER -> 400
GateIndex(g) == CHOOSE i \in DOMAIN AllGates : AllGates[i] = g
\* The serialized body does not exceed the ceiling (an absent body has none).
PassesSize(body) == body.kind = "undefined" \/ bodySize(body) <= MAX_REQUEST_SIZE
\* The strict policy: an identifier of 5-50 characters of [A-Za-z0-9_-] and an
\* integer number of minor units from 1 to 99,999,999.
StrictTransactionId(v) ==
    /\ v.t = "string"
    /\ Len(v.s) >= TXN_MIN_LEN /\ Len(v.s) <= TXN_MAX_LEN
    /\ \A i \in DOMAIN v.s : v.s[i] \in IdChars
StrictAmount(v) ==
    v.t = "number" /\ v.frac = 0 /\ v.whole >= 1 /\ v.whole <= MAX_AMOUNT
StrictInput(body) ==
    /\ body.kind = "string" /\ body.len > 0 /\ body.parse = "object"
    /\ StrictTransactionId(body.transactionId)
    /\ StrictAmount(body.amountCents)
FirstFailingGate(req, allowed, key) ==
    CASE req.method # "POST" -> "method"
      [] req.method = "POST" /\ ~allowed -> "rate"
      [] req.method = "POST" /\ allowed /\ ~PassesSize(req.body) -> "size"
      [] req.method = "POST" /\ allowed /\ PassesSize(req.body) /\ key = "" -> "credential"
      [] req.method = "POST" /\ allowed /\ PassesSize(req.body) /\ key # ""
             /\ ~StrictInput(req.body) -> "input"
      [] OTHER -> "none"
Hardened == revision = "hardened" /\ last.valid

\* C2: in the hardened handler the gates are evaluated in the order method
\* (405), rate limit (429), body size (413), credential (500), parse and
\* validation (400); the response is that of the first gate that fails, no
\* later gate is evaluated, and the gateway is called only when all five pass.
C2_GateOrder ==
    Hardened =>
        LET g == FirstFailingGate(last.req, last.allowed, secret)
        IN  IF g = "none"
            THEN last.res.gates = AllGates /\ last.res.calls # <<>>
            ELSE /\ last.res.status = GateStatus(g)
                 /\ last.res.gates = SubSeq(AllGates, 1, GateIndex(g))
                 /\ last.res.calls = <<>>
\* The same statement for the requests that carry a body.
C2_GateOrderWithBody ==
    (Hardened /\ last.req.body.kind # "undefined") => C2_GateOrder

\* C3: every invocation of the hardened handler returns a response whose
\* status is one of 200, 400, 405, 413, 429, 500; no fault raised inside it
\* reaches the caller.
C3_AlwaysResponds ==
    Hardened =>
        /\ ~last.res.escaped
        /\ last.res.status \in {200, 400, 405, 413, 429, 500}
\* A fault raised inside a gate is answered by the outermost catch.
C3_Witness ==
    Hardened /\ last.res.error = "Server error" /\ last.res.fault # ""
C3_RateLimited == Hardened /\ last.res.status = 429

\* The capture response has status 200 or 201 and a body that is a JSON object.
ObjectCapture(out) ==
    /\ out.kind = "response"
    /\ out.status \in {200, 201}
    /\ out.data.type = "object"
\* The capture response has status 200 or 201 and a body that is a JSON object
\* or a JSON array (the values whose typeof is 'object' and that are truthy).
StructuredCapture(out) ==
    /\ out.kind = "response"
    /\ out.status \in {200, 201}
    /\ out.data.type \in {"object", "array"}

\* C4, as stated: the hardened handler answers 200 with success: true exactly
\* when all gates passed and the capture response had status 200 or 201 with
\* a well-formed JSON object body; every other outcome of the gateway call
\* yields success: false with status 500.
C4_SuccessIffObjectBody ==
    Hardened =>
        /\ (last.res.status = 200 /\ last.res.success)
              <=> /\ FirstFailingGate(last.req, last.allowed, secret) = "none"
                  /\ ObjectCapture(last.capOut)
        /\ (last.capOut.kind # "pending" /\ ~ObjectCapture(last.capOut))
              => (last.res.status = 500 /\ ~last.res.success)

\* C4, amended: the hardened handler answers 200 with success: true exactly
\* when all gates passed and the capture response had status 200 or 201 with
\* a body that parsed to a JSON object or a JSON array; every other gateway
\* status, every other body and every transport failure yields success: false
\* with status 500.
C4_SuccessIffCaptured ==
    Hardened =>
        /\ (last.res.status = 200 /\ last.res.success)
              <=> /\ FirstFailingGate(last.req, last.allowed, secret) = "none"
                  /\ StructuredCapture(last.capOut)
        /\ last.res.success <=> last.res.status = 200
        /\ (last.capOut.kind # "pending" /\ ~StructuredCapture(last.capOut))
              => (last.res.status = 500 /\ ~last.res.success)
C4_Witness ==
    /\ Hardened /\ last.res.success
    /\ last.capOut.status = 201 /\ last.capOut.data.type = "array"
C4_FailureWitness ==
    /\ Hardened /\ last.res.status = 500
    /\ last.capOut.kind = "response" /\ last.capOut.status = 204

\* C5: with no credential in the environment, every POST that passes the
\* method, rate-limit and body-size gates is answered 500 with a generic
\* configuration-error message, whatever its body, and nothing is sent to the
\* gateway.
ConfigurationMessages ==
    {"Server configuration error.", "Server configuration error: Missing API Key."}
C5_MissingCredential ==
    ( /\ last.valid /\ secret = ""
      /\ last.req.method = "POST" /\ last.allowed
      /\ PassesSize(last.req.body) )
        => /\ last.res.status = 500
           /\ last.res.error \in ConfigurationMessages
           /\ last.res.calls = <<>>

\* C6: in the hardened handler a POST that passes the method, rate-limit,
\* body-size and credential gates and whose body is absent, unparseable or
\* fails validation is answered 400, and nothing is sent to the gateway.
C6_InvalidInput ==
    (Hardened /\ FirstFailingGate(last.req, last.allowed, secret) = "input")
        => (last.res.status = 400 /\ last.res.calls = <<>>)

\* The same run with another credential and other texts in the gateway's bodies.
OtherText(t) == IF t = "" THEN "" ELSE t \o "#2"
OtherBody(out) ==
    [out EXCEPT !.data.detail = OtherText(@), !.data.message = OtherText(@)]
OtherKey(key) == IF key = "" THEN "" ELSE "sk_live_2"
Visible(r) == <<r.status, r.success, r.error>>

\* C7: in every revision the response holds neither the credential nor text of
\* the gateway's response: a run that differs only in the credential value or
\* in the texts of the gateway's bodies returns the same status, success flag
\* and error string.
C7_NoUpstreamText ==
    last.valid =>
        Visible(handler(revision, last.req, OtherKey(secret), last.allowed,
                        OtherBody(last.authOut), OtherBody(last.capOut)))
            = Visible(last.res)
C7_HardenedNoUpstreamText == revision \in {"hardened", "tokenNull"} => C7_NoUpstreamText

\* C8: validateAmount of the hardened revision rejects what is not a number,
\* is <= 0, is not an integer or exceeds 99,999,999, and returns every integer
\* from 1 to 99,999,999 unchanged: the amount_cents sent to the gateway is the
\* caller's amountCents.
C8_AmountUnchanged ==
    ( /\ Hardened /\ last.req.method = "POST" /\ last.allowed
      /\ PassesSize(last.req.body) /\ secret # ""
      /\ last.req.body.kind = "string" /\ last.req.body.len > 0
      /\ last.req.body.parse = "object"
      /\ StrictTransactionId(last.req.body.transactionId) )
        => IF StrictAmount(last.req.body.amountCents)
           THEN /\ Len(last.res.calls) = 1
                /\ last.res.calls[1].amount_cents = last.req.body.amountCents
           ELSE last.res.status = 400 /\ last.res.calls = <<>>
C8_Witness ==
    /\ Hardened /\ last.res.success
    /\ last.res.calls[1].amount_cents = Num(MAX_AMOUNT, 0)
C8_RejectWitness ==
    /\ Hardened /\ last.res.status = 400
    /\ last.req.body.amountCents = Num(1, 500)

\* The authentication exchange returned a non-empty token.
GaveToken(out) ==
    /\ out.kind = "response" /\ Is2xx(out.status)
    /\ out.data.type = "object" /\ out.data.token # ""
TokenExchange == revision \in {"tokenNull", "tokenThrow"}

\* C9: in the token-exchange handlers the capture request is sent only after
\* the authentication exchange returned a non-empty token, and carries that
\* token; when the exchange fails or returns no token, no capture request is
\* sent and the handler answers 500 with success: false.
C9_CaptureAfterToken ==
    TokenExchange =>
        /\ \A p \in DOMAIN inv :
              inv[p].pc = "awaitCapture" => GaveToken(inv[p].authOut)
        /\ last.valid =>
              /\ \A i \in DOMAIN last.res.calls :
                    last.res.calls[i].ep = "capture" =>
                        /\ i = 2 /\ last.res.calls[1].ep = "auth"
                        /\ GaveToken(last.authOut)
                        /\ last.res.calls[i].token = last.authOut.data.token
              /\ (last.authOut.kind # "pending" /\ ~GaveToken(last.authOut)) =>
                    /\ Len(last.res.calls) = 1 /\ last.res.calls[1].ep = "auth"
                    /\ last.res.status = 500 /\ ~last.res.success
C9_Witness ==
    /\ revision = "tokenThrow" /\ last.valid /\ last.res.success
    /\ Len(last.res.calls) = 2 /\ last.res.calls[2].token = "tokB"
C9_NoTokenWitness ==
    /\ TokenExchange /\ last.valid /\ last.res.status = 500
    /\ last.authOut.kind = "response" /\ last.authOut.status = 200
    /\ last.authOut.data.token = ""

\* The timestamps of a record that are still inside the window at time t.
StillInside(record, t) ==
    SelectSeq(record, LAMBDA ts : ts > t - RATE_LIMIT_WINDOW)
RecordOf(store, c) == IF c \in DOMAIN store THEN store[c] ELSE <<>>

\* C11: a checkRateLimit call that denies leaves the whole store unchanged;
\* a call that allows replaces only the calling client's record, by the
\* timestamps still inside the window followed by the current time, and
\* leaves every other client's record unchanged.
C11_RateLimitFrame ==
    [][checked'.called =>
          IF checked'.allowed
          THEN /\ DOMAIN rateLimitStore' = DOMAIN rateLimitStore \cup {checked'.clientId}
               /\ rateLimitStore'[checked'.clientId] =
                      Append(StillInside(RecordOf(rateLimitStore, checked'.clientId), now),
                             now)
               /\ \A c \in DOMAIN rateLimitStore :
                      c # checked'.clientId => rateLimitStore'[c] = rateLimitStore[c]
          ELSE rateLimitStore' = rateLimitStore]_vars
\* A client is denied while other clients have records in the store.
C11_Witness ==
    /\ checked.called /\ ~checked.allowed
    /\ \E c \in DOMAIN rateLimitStore :
          c # checked.clientId /\ rateLimitStore[c] # <<>>
\* A client is allowed: the timestamp that has left the window since its
\* previous call is dropped, the one still inside is kept, and another
\* client's record is in the store.
C11_PruneWitness ==
    /\ checked.called /\ checked.allowed
    /\ LET c == checked.clientId
       IN  /\ Len(granted[c]) = 3 /\ Len(rateLimitStore[c]) = 2
           /\ rateLimitStore[c] = SubSeq(granted[c], 2, 3)
           /\ granted[c][1] <= now - RATE_LIMIT_WINDOW
           /\ granted[c][1] > granted[c][2] - RATE_LIMIT_WINDOW
    /\ \E c \in DOMAIN rateLimitStore :
          c # checked.clientId /\ rateLimitStore[c] # <<>>

\* The pending gateway call of invocation p is abandoned by its timeout,
\* without the gateway having answered.
Abandon(p) == AuthReply(p, Timeout) \/ CaptureReply(p, Timeout)
Awaiting(p) == inv[p].pc \in {"awaitAuth", "awaitCapture"}
TimedOut == last.authOut.kind = "timeout" \/ last.capOut.kind = "timeout"

\* C12: every invocation returns even when the gateway never answers: while
\* an invocation awaits an outbound call (authentication exchange or capture)
\* the request timeout can abandon that call, and once it has, the handler
\* answers with status 500.
C12_TimeoutAbandons ==
    /\ \A p \in DOMAIN inv : Awaiting(p) => ENABLED Abandon(p)
    /\ (last.valid /\ TimedOut) => (last.res.status = 500 /\ ~last.res.success)
\* The hardened revision's capture call is abandoned and answered with 500.
C12_TimedOutAnswered ==
    /\ revision = "hardened" /\ last.valid /\ last.capOut.kind = "timeout"
    /\ last.res.status = 500

\* The messages captureTransaction throws that carry a text of the body.
Carrying(text) ==
    { "Paymob Capture Request Failed: " \o text,
      "Paymob Capture Request Failed: Paymob Capture Failed: " \o text }
\* The capture attempt failed and the gateway returned a body with fields.
CaptureFailedWithBody ==
    /\ last.valid /\ ~last.res.success
    /\ last.capOut.kind = "response" /\ last.capOut.data.type = "object"
Preferred(data) == IF data.detail # "" THEN data.detail ELSE data.message

\* C13: whenever a capture attempt fails and the gateway returned a response
\* body, the message captureTransaction produces carries the body's detail
\* field when present, otherwise its message field, otherwise a generic
\* fallback text, for an error status as well as for a non-success 2xx status.
C13_MessagePriority ==
    (revision # "tokenNull" /\ CaptureFailedWithBody) =>
        /\ last.res.fault # ""
        /\ Preferred(last.capOut.data) # ""
              => last.res.fault \in Carrying(Preferred(last.capOut.data))
\* The same statement for the error statuses of the static-bearer revision
\* with basic checks, whose client keeps the gateway's error response.
C13_BasicErrorStatus ==
    (revision = "bearerBasic" /\ ~Is2xx(last.capOut.status)) => C13_MessagePriority

====
